---- MODULE Spec2Model ----
(***************************************************************************)
(* Request handling of the link shortener's landing page (Home), its root  *)
(* layout (RootLayout) and the route protection described in docs/auth.md. *)
(* The auth provider and the link store are collaborators: their state is  *)
(* `session` and `links`.                                                  *)
(***************************************************************************)
EXTENDS Integers, Sequences, FiniteSets, TLC

VARIABLES session, reqs, browser, links

vars == <<session, reqs, browser, links>>

\* ---------------------------------------------------------------- bounds
MaxRequests == 2
MaxClicks == 1
Callers == {"u1", "u2"}
Codes == {"abc"}

\* ------------------------------------------------------------- vocabulary
None == "none"
Unset == "unset"
Absent == [stored |-> FALSE, clicks |-> 0]

Routes == {"/", "/dashboard"}
ProtectedRoutes == {"/dashboard"}

\* ---------------------------------------------------------- page content
\* The sign-in / sign-up links of the landing page (next/link elements).
MarketingLinks ==
  { [kind |-> "Link", label |-> "Get Started Free", href |-> "/sign-up"],
    [kind |-> "Link", label |-> "Sign In", href |-> "/sign-in"],
    [kind |-> "Link", label |-> "Create Your Free Account", href |-> "/sign-up"] }

\* The JSX returned by Home.
Marketing == [page |-> "marketing", heading |-> "Shorten Links.", links |-> MarketingLinks]

NoBody == [page |-> None, heading |-> "", links |-> {}]

\* No header reaches the caller: the response is a redirect or an error.
NoHeader == [state |-> "dropped", controls |-> {}]

Dashboard == [page |-> "dashboard", heading |-> "", links |-> {}]

SignInButton == [kind |-> "SignInButton", label |-> "Sign In", mode |-> "modal"]
SignUpButton == [kind |-> "SignUpButton", label |-> "Sign Up", mode |-> "modal"]
UserButton == [kind |-> "UserButton", label |-> "", mode |-> None]

\* ------------------------------------------------- the identity query
\* auth(): the identifier the auth collaborator returns for the current
\* request, i.e. the identity the request arrived with.
auth_live(r) == session[reqs[r].caller]
auth_cached(r) == reqs[1].token
auth(r) == reqs[r].token

\* ------------------------------------------------------------------ Home
\* The branch after the query returned: redirect('/dashboard') or the JSX.
HomeOutcome_NoRedirect(userId) ==
  [outcome |-> "render", target |-> None, body |-> Marketing]
HomeOutcome_RedirectAll(userId) ==
  [outcome |-> "redirect", target |-> "/dashboard", body |-> NoBody]
HomeOutcome(userId) ==
  IF userId # None
    THEN [outcome |-> "redirect", target |-> "/dashboard", body |-> NoBody]
    ELSE [outcome |-> "render", target |-> None, body |-> Marketing]

\* A rejected `await auth()` is not caught by Home: the render throws.
HomeOnFailure_Redirect == [outcome |-> "redirect", target |-> "/dashboard", body |-> NoBody]
HomeOnFailure == [outcome |-> "error", target |-> None, body |-> NoBody]

\* Home writes to neither collaborator.
HomeEffects_CountsVisit ==
  /\ links' = [c \in Codes |->
                 IF links[c].stored /\ links[c].clicks < MaxClicks
                   THEN [links[c] EXCEPT !.clicks = @ + 1] ELSE links[c]]
  /\ UNCHANGED <<session, browser>>
HomeEffects == UNCHANGED <<session, browser, links>>

\* `const { userId } = await auth()`: the call is issued, Home suspends.
HomeAwait_NoQuery(r) ==
  /\ reqs[r].route = "/" /\ reqs[r].pc = "start"
  /\ reqs' = [reqs EXCEPT ![r].pc = "done", ![r].outcome = "render", ![r].body = Marketing]
  /\ HomeEffects
HomeAwait(r) ==
  /\ reqs[r].route = "/" /\ reqs[r].pc = "start"
  /\ reqs' = [reqs EXCEPT ![r].pc = "awaiting", ![r].query = "pending",
                          ![r].authCalls = @ + 1]
  /\ HomeEffects

\* The query settles and Home runs to its end.
HomeResume(r) ==
  /\ reqs[r].route = "/" /\ reqs[r].pc = "awaiting"
  /\ \E ok \in BOOLEAN :
       LET userId == auth(r)
           res == IF ok THEN HomeOutcome(userId) ELSE HomeOnFailure
       IN reqs' = [reqs EXCEPT ![r].pc = "done",
                               ![r].query = IF ok THEN "returned" ELSE "failed",
                               ![r].userId = IF ok THEN userId ELSE Unset,
                               ![r].outcome = res.outcome,
                               ![r].target = res.target,
                               ![r].body = res.body,
                               ![r].header = IF res.outcome = "render" THEN @ ELSE NoHeader]
  /\ HomeEffects

\* ------------------------------------------------------------ RootLayout
SignedOut(userId) == IF userId = None THEN {SignInButton, SignUpButton} ELSE {}

SignedIn_Always(userId) == {UserButton}
SignedIn(userId) == IF userId # None THEN {UserButton} ELSE {}

\* The header of a response; the layout renders alongside the page, and its
\* output is dropped when the page redirects or throws.
RootLayout(r) ==
  /\ reqs[r].header.state = "pending"
  /\ reqs' = [reqs EXCEPT ![r].header =
                [state |-> "rendered",
                 controls |-> SignedOut(auth(r)) \cup SignedIn(auth(r))]]
  /\ UNCHANGED <<session, browser, links>>

\* --------------------------------------------- route protection, dashboard
Protect_Nothing(route, token) == FALSE
Protect(route, token) == route \in ProtectedRoutes /\ token = None

\* A request arrives carrying the caller's current identity and passes the
\* auth middleware.
Middleware(c, route) ==
  /\ Len(reqs) < MaxRequests
  /\ LET blocked == Protect(route, session[c])
     IN reqs' = Append(reqs,
          [caller |-> c, route |-> route, token |-> session[c],
           pc |-> IF blocked THEN "done" ELSE "start",
           query |-> "unasked", authCalls |-> 0, userId |-> Unset,
           outcome |-> IF blocked THEN "redirect" ELSE None,
           target |-> IF blocked THEN "/sign-in" ELSE None,
           body |-> NoBody,
           header |-> IF blocked THEN NoHeader
                                 ELSE [state |-> "pending", controls |-> {}]])
  /\ UNCHANGED <<session, browser, links>>

DashboardPage(r) ==
  /\ reqs[r].route = "/dashboard" /\ reqs[r].pc = "start"
  /\ reqs' = [reqs EXCEPT ![r].pc = "done", ![r].outcome = "render", ![r].body = Dashboard]
  /\ UNCHANGED <<session, browser, links>>

\* ------------------------------------------------------------ the browser
RenderedPage(r) == reqs[r].outcome = "render" /\ reqs[r].header.state = "rendered"

\* The sign-in and sign-up affordances a rendered page offers.
Affordances(r) ==
  {a \in reqs[r].header.controls : a.kind \in {"SignInButton", "SignUpButton"}}
    \cup {a \in reqs[r].body.links : a.href \in {"/sign-in", "/sign-up"}}

\* What activating an affordance does in the browser.
Effect(a) ==
  IF a.kind = "Link" THEN [modal |-> None, loc |-> a.href]
  ELSE IF a.mode = "modal"
    THEN [modal |-> IF a.kind = "SignInButton" THEN "signIn" ELSE "signUp", loc |-> None]
    ELSE [modal |-> None, loc |-> IF a.kind = "SignInButton" THEN "/sign-in" ELSE "/sign-up"]

Activate(r, a) ==
  /\ RenderedPage(r)
  /\ a \in Affordances(r)
  /\ browser' = Effect(a)
  /\ UNCHANGED <<session, reqs, links>>

\* ------------------------------------------------------ the collaborators
SignIn(c) ==
  /\ session[c] = None
  /\ session' = [session EXCEPT ![c] = c]
  /\ UNCHANGED <<reqs, browser, links>>

SignOut(c) ==
  /\ session[c] # None
  /\ session' = [session EXCEPT ![c] = None]
  /\ UNCHANGED <<reqs, browser, links>>

CreateLink(c, code) ==
  /\ session[c] # None
  /\ links[code] = Absent
  /\ links' = [links EXCEPT ![code] = [stored |-> TRUE, clicks |-> 0]]
  /\ UNCHANGED <<session, reqs, browser>>

ResolveLink(code) ==
  /\ links[code] # Absent
  /\ links[code].clicks < MaxClicks
  /\ links' = [links EXCEPT ![code].clicks = @ + 1]
  /\ UNCHANGED <<session, reqs, browser>>

\* ---------------------------------------------------------- specification
Init ==
  /\ session = [c \in Callers |-> None]
  /\ reqs = <<>>
  /\ browser = [modal |-> None, loc |-> None]
  /\ links = [c \in Codes |-> Absent]

\* Handling of requests, with the auth provider and the link store changing
\* underneath.
Next ==
  \/ \E c \in Callers, route \in Routes : Middleware(c, route)
  \/ \E r \in DOMAIN reqs : HomeAwait(r)
  \/ \E r \in DOMAIN reqs : HomeResume(r)
  \/ \E r \in DOMAIN reqs : RootLayout(r)
  \/ \E r \in DOMAIN reqs : DashboardPage(r)
  \/ \E c \in Callers : SignIn(c)
  \/ \E c \in Callers : SignOut(c)
  \/ \E c \in Callers, code \in Codes : CreateLink(c, code)
  \/ \E code \in Codes : ResolveLink(code)

Spec == Init /\ [][Next]_vars

\* The same, with callers activating the affordances of the pages they got.
NextBrowser ==
  \/ Next
  \/ \E r \in DOMAIN reqs : \E a \in Affordances(r) : Activate(r, a)

SpecBrowser == Init /\ [][NextBrowser]_vars

\* ------------------------------------------------------------ properties
HomeReqs == {r \in DOMAIN reqs : reqs[r].route = "/"}

Returned(r) == reqs[r].query = "returned"

\* C1: a request to `/` whose identity query returned a user identifier ends
\* in a redirect to `/dashboard`, to no other route, and renders no marketing
\* content.
C1_AuthenticatedRedirects ==
  \A r \in HomeReqs :
    (Returned(r) /\ reqs[r].userId # None) =>
      /\ reqs[r].outcome = "redirect"
      /\ reqs[r].target = "/dashboard"
      /\ reqs[r].body.page = None
      /\ ~RenderedPage(r)

C1_Witness ==
  \E r \in HomeReqs :
    Returned(r) /\ reqs[r].userId \in Callers /\ reqs[r].outcome = "redirect"

\* C2: a request to `/` whose identity query returned no user identifier
\* renders the marketing content, with the heading "Shorten Links." and a
\* call-to-action linking to `/sign-up`, and issues no redirect.
C2_UnauthenticatedRenders ==
  \A r \in HomeReqs :
    (Returned(r) /\ reqs[r].userId = None) =>
      /\ reqs[r].outcome = "render"
      /\ reqs[r].target = None
      /\ reqs[r].body.page = "marketing"
      /\ reqs[r].body.heading = "Shorten Links."
      /\ \E l \in reqs[r].body.links : l.href = "/sign-up"

C2_Witness ==
  \E r \in HomeReqs :
    Returned(r) /\ reqs[r].userId = None /\ reqs[r].body.page = "marketing"

\* C3: in every rendered page the header holds the Sign In and Sign Up
\* controls exactly when the request is unauthenticated and the user menu
\* exactly when it is authenticated: one of the two, never both, never none.
C3_HeaderMatchesIdentity ==
  \A r \in DOMAIN reqs :
    RenderedPage(r) =>
      LET h == reqs[r].header.controls
      IN /\ ({SignInButton, SignUpButton} \subseteq h) <=> (reqs[r].token = None)
         /\ (SignInButton \in h) <=> (SignUpButton \in h)
         /\ (UserButton \in h) <=> (reqs[r].token # None)
         /\ (UserButton \in h) <=> (SignInButton \notin h)

C3_Witness ==
  \E r, q \in DOMAIN reqs :
    /\ RenderedPage(r) /\ reqs[r].token = None
    /\ RenderedPage(q) /\ reqs[q].token # None

\* C4: no activation of a sign-in or sign-up affordance takes the caller to
\* a separate sign-in or sign-up page.
C4_NeverNavigatesToAuthPage == browser.loc = None

\* C5: an unauthenticated request to `/dashboard` is never given the
\* dashboard and is redirected to sign-in.
C5_DashboardProtected ==
  \A r \in DOMAIN reqs :
    /\ (reqs[r].route = "/dashboard" /\ reqs[r].token = None) =>
         (reqs[r].outcome = "redirect" /\ reqs[r].target = "/sign-in")
    /\ (reqs[r].body.page = "dashboard") => (reqs[r].token # None)

C5_Witness ==
  \E r \in DOMAIN reqs :
    reqs[r].route = "/dashboard" /\ reqs[r].token = None /\ reqs[r].pc = "done"

\* C6 as stated: a failed identity query during a request to `/` ends in a
\* redirect, and Home never ends a request in an error outcome.
C6_FailureRedirects ==
  \A r \in HomeReqs :
    /\ (reqs[r].query = "failed") => (reqs[r].outcome = "redirect")
    /\ reqs[r].outcome # "error"

\* C6 as amended: a failed identity query during a request to `/` ends the
\* request in an error outcome with no redirect and no marketing content, and
\* Home ends a request in an error outcome in no other case.
C6_FailurePropagates ==
  \A r \in HomeReqs :
    /\ (reqs[r].query = "failed") =>
         /\ reqs[r].outcome = "error"
         /\ reqs[r].target = None
         /\ reqs[r].body.page = None
    /\ (reqs[r].outcome = "error") => (reqs[r].query = "failed")

C6_Witness ==
  \E r \in HomeReqs : reqs[r].query = "failed" /\ reqs[r].pc = "done"

\* What Home writes of a request.
HomeFields(q) == <<q.pc, q.query, q.authCalls, q.userId, q.outcome, q.target, q.body>>

\* C7: a step in which Home advances a request to `/` leaves the sessions and
\* the stored links, click counts included, as they were.
C7_HomeHasNoSideEffects ==
  [][(\E r \in HomeReqs : HomeFields(reqs'[r]) # HomeFields(reqs[r]))
       => (session' = session /\ links' = links)]_vars

C7_Witness ==
  /\ \E r \in HomeReqs : reqs[r].outcome = "redirect"
  /\ \E r \in HomeReqs : reqs[r].outcome = "render"
  /\ \E c \in Callers : session[c] # None
  /\ \E code \in Codes : links[code].stored /\ links[code].clicks > 0

\* C8: Home queries the identity at most once per request, has done so and
\* got the answer before any outcome exists, and binds the identity of the
\* request at hand.
C8_QueryOncePerRender ==
  \A r \in HomeReqs :
    /\ reqs[r].authCalls <= 1
    /\ (reqs[r].outcome # None \/ reqs[r].body.page # None) =>
         (reqs[r].authCalls = 1 /\ reqs[r].query \in {"returned", "failed"})
    /\ Returned(r) => (reqs[r].userId = reqs[r].token)

C8_Witness ==
  \E r, q \in HomeReqs :
    /\ r < q /\ reqs[r].token # reqs[q].token
    /\ Returned(r) /\ Returned(q)

\* C9: the result of every request to `/` whose query returned is the
\* result of that request handled alone, whatever other requests are in
\* flight, and two such requests of equally authenticated callers end alike.
C9_RequestsIndependent ==
  /\ \A r \in HomeReqs :
       Returned(r) =>
         [outcome |-> reqs[r].outcome, target |-> reqs[r].target, body |-> reqs[r].body]
           = HomeOutcome(reqs[r].token)
  /\ \A r, q \in HomeReqs :
       (Returned(r) /\ Returned(q)
          /\ ((reqs[r].token = None) <=> (reqs[q].token = None))) =>
         (reqs[r].outcome = reqs[q].outcome /\ reqs[r].target = reqs[q].target)

\* A later request of another caller has finished while the earlier one
\* still awaits its query, and the two end differently.
C9_Witness ==
  \E r, q \in HomeReqs :
    /\ r < q /\ reqs[r].caller # reqs[q].caller
    /\ reqs[r].pc = "awaiting" /\ Returned(q)
    /\ reqs[r].token # None /\ reqs[q].outcome = "render"

====
